---- MODULE Spec2Model ----
(***************************************************************************)
(* Model of the any-dns packet-mediation engine.                           *)
(*                                                                         *)
(*  - DnsProcessor / DnsThread (src/src/dns_thread.rs): worker threads     *)
(*    reading one UDP socket, each with its own pending-query store, an    *)
(*    id cursor inside an id range, and a stop flag.                       *)
(*  - AnyDNS (src/src/server.rs): the single-threaded engine.              *)
(*  - the stores of src/src/pending_queries.rs.                            *)
(*                                                                         *)
(* Four specifications:                                                    *)
(*   Spec / SpecFair : the engine with its environment (clients, the       *)
(*                     upstream resolver, the controller calling stop and  *)
(*                     join).                                              *)
(*   SpecIds         : one DnsProcessor (for every id range handed to it)  *)
(*                     or one AnyDNS, on which next_id is called           *)
(*                     repeatedly.                                         *)
(*   SpecPartition   : the equal-width partition of the id space, probed   *)
(*                     id by id.                                           *)
(*   SpecStore       : a PendingStore whose clones are handed to the       *)
(*                     processors, which call insert and remove on them.   *)
(***************************************************************************)
EXTENDS Integers, Sequences, FiniteSets, TLC

(***************************************************************************)
(* Program constants.                                                      *)
(***************************************************************************)
\* u16::MAX
U16Max == 65535
\* one byte holds ByteBase values (u16::to_be_bytes splits an id in two bytes)
ByteBase == 256

(***************************************************************************)
(* Bounds of the model.                                                    *)
(***************************************************************************)
\* client datagrams sent in one behaviour
MaxQueries == 1
\* datagrams the resolver sends under the id of a forwarded datagram
MaxReplies == 1
\* datagrams waiting in the socket's receive queue
MaxInbox == 1
\* length of the recorded allocation history of a processor
MaxHist == 4
\* largest worker count whose partition is examined
MaxN == 3
\* store calls made in one behaviour
MaxOps == 4

\* The DnsThread workers created on the socket.
Workers == {1, 2}
NumWorkers == Cardinality(Workers)

(***************************************************************************)
(* Addresses.                                                              *)
(***************************************************************************)
Resolver == "192.168.1.1:53"

(***************************************************************************)
(* Datagrams.  A datagram is its first bytes (hdr: at most the two bytes   *)
(* of the transaction id) and the rest (body).  The body records what the  *)
(* DNS codec makes of it: whether it parses, its question and answer       *)
(* sections, and everything else (flags, authority, additional).           *)
(***************************************************************************)
Garbage == [wf |-> FALSE, questions |-> <<>>, answers |-> <<>>, extra |-> "garbage"]
QueryBody(name) == [wf |-> TRUE, questions |-> <<name>>, answers |-> <<>>, extra |-> "query"]
AnswerBody(qs) == [wf |-> TRUE, questions |-> qs, answers |-> <<"93.184.216.34">>,
                   extra |-> "ra+authority+additional"]

NoDatagram == [from |-> "none", data |-> [hdr |-> <<>>, body |-> Garbage]]
NoPending == [id |-> 0, query |-> NoDatagram.data, from |-> "none"]

\* ToBeBytes with the low byte first.
ToBeBytes_LowFirst(id) == <<id % ByteBase, id \div ByteBase>>
\* u16::to_be_bytes and its inverse
ToBeBytes(id) == <<id \div ByteBase, id % ByteBase>>
FromBeBytes(h) == h[1] * ByteBase + h[2]

\* simple_dns::Packet::parse: fails on bytes that are no DNS message
ParseOk(d) == Len(d.hdr) = 2 /\ d.body.wf
Parse(d) == [id |-> FromBeBytes(d.hdr), questions |-> d.body.questions,
             answers |-> d.body.answers, extra |-> d.body.extra]
\* simple_dns::Packet::new_reply
NewReply(id) == [id |-> id, questions |-> <<>>, answers |-> <<>>, extra |-> "reply"]
\* simple_dns::Packet::build_bytes_vec
BuildBytes(p) == [hdr |-> ToBeBytes(p.id),
                  body |-> [wf |-> TRUE, questions |-> p.questions,
                            answers |-> p.answers, extra |-> p.extra]]

\* The datagrams clients send: a query the handler declines (id 0x1234), a
\* query the handler answers (id 0xABCD), and bytes that are no DNS message.
ClientMessages ==
    { [from |-> "127.0.0.1:40000", data |-> [hdr |-> <<18, 52>>, body |-> QueryBody("example.com")]],
      [from |-> "127.0.0.1:40001", data |-> [hdr |-> <<171, 205>>, body |-> QueryBody("custom.local")]],
      [from |-> "127.0.0.1:40000", data |-> [hdr |-> <<18, 52>>, body |-> Garbage]] }

\* The handler handed to the processor: answers custom.local, declines the rest.
HandlerAnswers(p) == p.questions # <<>> /\ p.questions[1] = "custom.local"
HandlerReply(p) == [id |-> p.id, questions |-> p.questions,
                    answers |-> <<"10.0.0.1">>, extra |-> "reply"]

(***************************************************************************)
(* Id ranges.                                                              *)
(***************************************************************************)
\* The equal-width partition handed to the workers.
Width(n) == U16Max \div n
\* IdRange with each range running two ids further.
IdRange_Overlap(n, i) == [start |-> i * Width(n), end |-> (i + 1) * Width(n) + 1]
IdRange(n, i) == [start |-> i * Width(n), end |-> (i + 1) * Width(n) - 1]
\* std::ops::Range<u16>::contains: half-open
RangeContains(r, x) == r.start <= x /\ x < r.end

\* DnsProcessor::next_id, with the cursor before the call.  The u16 addition
\* overflows at u16::MAX: the build either panics or wraps to 0.
NextIdResults(cursor, range) ==
    LET pick(s) == IF s > range.end THEN range.start ELSE s
    IN  IF cursor + 1 > U16Max
        THEN { [panic |-> TRUE, id |-> cursor],
               [panic |-> FALSE, id |-> pick((cursor + 1) % (U16Max + 1))] }
        ELSE { [panic |-> FALSE, id |-> pick(cursor + 1)] }

\* StartCursor as DnsProcessor::new sets the cursor: 0, whatever the range.
StartCursor_Zero(range) == 0

\* DnsProcessor::new_threadsafe: the cursor starts at the range's start.
StartCursor(range) == range.start

\* The ids next_id hands out of a range: `id > end` wraps, so end is one of them.
Allocatable(r, x) == r.start <= x /\ x <= r.end

\* AnyDNS::next_id: returns the cursor; the incremented value is discarded.
AnyNextId(cursor) == cursor

(***************************************************************************)
(* Stores: HashMap<u16, PendingQuery>.                                     *)
(***************************************************************************)
StoreInsert(t, e) == [k \in DOMAIN t \cup {e.id} |-> IF k = e.id THEN e ELSE t[k]]
\* StoreRemove leaving the record in the table.
StoreRemove_Keep(t, id) == t
StoreRemove(t, id) == [k \in DOMAIN t \ {id} |-> t[k]]
EmptyStore == [k \in {} |-> NoPending]

VARIABLES
    engine,        \* "DnsThread" (the workers) or "AnyDNS" (the single-threaded engine, processor 1)
    id_range,      \* id_range[w]: the processor's Range<u16>
    next_id,       \* next_id[w]: the processor's cursor
    pending,       \* pending[w]: the processor's store
    stop_signal,   \* stop_signal[w]: the DnsThread's stop flag
    pc,            \* pc[w]: where the processor's run loop stands
    cur,           \* cur[w]: the datagram in the read buffer, and its sender
    removed,       \* removed[w]: the record taken out of the store for the relay
    joinpc,        \* joinpc[w]: the controller's call of DnsThread::join
    inbox,         \* datagrams in the socket's receive queue
    nq,            \* client datagrams sent so far
    nr,            \* resolver datagrams sent so far under a forwarded id
    sent,          \* history: every datagram the engine sent
    handlerLog,    \* history: every call of the handler, with its result
    allocated,     \* history: the first ids next_id returned to w
    n,             \* SpecPartition: the worker count
    probe,         \* SpecPartition: the id under examination
    duplicated,    \* history: the datagram of the resolver that arrived twice
    variant,       \* SpecStore: the PendingStore variant created
    tables,        \* SpecStore: the HashMaps allocated (tables[1]: the store created first)
    handle,        \* SpecStore: handle[w]: the table processor w's store refers to
                   \*   (0: no processor yet, -1: new_threadsafe panicked)
    mutex,         \* SpecStore: the holder of the Mutex of tables[1] (0: free)
    call,          \* SpecStore: call[w]: the store call processor w is inside
    hist           \* SpecStore history: the calls completed, in order

storeVars == <<variant, tables, handle, mutex, call, hist>>

vars == <<engine, id_range, next_id, pending, stop_signal, pc, cur, removed, joinpc,
          inbox, nq, nr, sent, handlerLog, allocated, n, probe, duplicated, storeVars>>

\* No call in progress.
NoCall == [op |-> "none", rec |-> NoPending]

\* PendingStore::new_thread_safe, before any processor holds a clone of it.
StoreIdle ==
    /\ variant = "ThreadSafe"
    /\ tables = <<EmptyStore>>
    /\ handle = [w \in Workers |-> 0]
    /\ mutex = 0
    /\ call = [w \in Workers |-> NoCall]
    /\ hist = <<>>

Active == IF engine = "AnyDNS" THEN {1} ELSE Workers
Terminated(w) == pc[w] \in {"stopped", "failed", "panicked"}

\* DnsThread::new hands each processor a new store, its range and a new stop
\* flag; DnsProcessor::new_threadsafe starts the cursor at the range's start.
\* Builder::build starts AnyDNS with cursor 0 and an empty table.
Init ==
    /\ engine \in {"DnsThread", "AnyDNS"}
    /\ id_range = [w \in Workers |-> IdRange(NumWorkers, w - 1)]
    /\ next_id = [w \in Workers |-> IF engine = "AnyDNS" THEN 0 ELSE StartCursor(id_range[w])]
    /\ pending = [w \in Workers |-> EmptyStore]
    /\ stop_signal = [w \in Workers |-> FALSE]
    /\ pc = [w \in Workers |-> "recv"]
    /\ cur = [w \in Workers |-> NoDatagram]
    /\ removed = [w \in Workers |-> NoPending]
    /\ joinpc = [w \in Workers |-> "idle"]
    /\ inbox = {}
    /\ nq = 0
    /\ nr = 0
    /\ sent = {}
    /\ handlerLog = {}
    /\ allocated = [w \in Workers |-> <<>>]
    /\ n = NumWorkers
    /\ probe = 0
    /\ duplicated = {}
    /\ StoreIdle

Remember(h, id) == IF Len(h) < MaxHist THEN Append(h, id) ELSE h

(***************************************************************************)
(* Environment.                                                            *)
(***************************************************************************)
ClientSend ==
    /\ nq < MaxQueries
    /\ Cardinality(inbox) < MaxInbox
    /\ \E m \in ClientMessages : inbox' = inbox \cup {m}
    /\ nq' = nq + 1
    /\ UNCHANGED <<engine, id_range, next_id, pending, stop_signal, pc, cur, removed,
                   joinpc, nr, sent, handlerLog, allocated, n,
                   probe, duplicated, storeVars>>

\* A well-formed datagram from the upstream address under an id nobody asked
\* for (0xBEEF); OrphanSend sends it any number of times.
OrphanDatagram == [hdr |-> <<190, 239>>, body |-> AnswerBody(<<"example.com">>)]
\* The same, with bytes after the id that are no DNS message.
OrphanGarbage == [hdr |-> <<190, 239>>, body |-> Garbage]

\* What the upstream address sends under the id of a datagram forwarded to
\* it (at any later time, more than once): an answer, or bytes that are no
\* DNS message; and such bytes under an id nobody asked for.
UpstreamDatagrams ==
    { [hdr |-> s.data.hdr, body |-> b] :
        s \in {x \in sent : x.to = Resolver},
        b \in {AnswerBody(<<"example.com">>), Garbage} }
    \cup {OrphanGarbage}

UpstreamSend ==
    /\ nr < MaxReplies
    /\ Cardinality(inbox) < MaxInbox
    /\ \E d \in UpstreamDatagrams :
          inbox' = inbox \cup {[from |-> Resolver, data |-> d]}
    /\ nr' = nr + 1
    /\ UNCHANGED <<engine, id_range, next_id, pending, stop_signal, pc, cur, removed,
                   joinpc, nq, sent, handlerLog, allocated, n,
                   probe, duplicated, storeVars>>

\* The network delivers a second copy of a datagram of the resolver that a
\* processor has just read (a DNS message sent under the id of a forwarded
\* datagram); the copy then waits in the receive queue for any time.  This
\* happens once in a behaviour.
DuplicateSend ==
    /\ duplicated = {}
    /\ Cardinality(inbox) < MaxInbox
    /\ \E w \in Active :
          /\ pc[w] = "reply"
          /\ cur[w].from = Resolver
          /\ ParseOk(cur[w].data)
          /\ \E s \in sent : s.to = Resolver /\ s.data.hdr = cur[w].data.hdr
          /\ inbox' = inbox \cup {cur[w]}
          /\ duplicated' = {cur[w].data}
    /\ UNCHANGED <<engine, id_range, next_id, pending, stop_signal, pc, cur, removed,
                   joinpc, nq, nr, sent, handlerLog, allocated, n, probe, storeVars>>

OrphanSend ==
    /\ Cardinality(inbox) < MaxInbox
    /\ inbox' = inbox \cup {[from |-> Resolver, data |-> OrphanDatagram]}
    /\ UNCHANGED <<engine, id_range, next_id, pending, stop_signal, pc, cur, removed,
                   joinpc, nq, nr, sent, handlerLog, allocated, n,
                   probe, duplicated, storeVars>>

(***************************************************************************)
(* The processor's loop: DnsProcessor::run with DnsProcessor::recv_from,   *)
(* and AnyDNS::run.  One step per access to the socket or the store.       *)
(***************************************************************************)
Origin(w) == [from |-> removed[w].from, data |-> removed[w].query]

\* socket.recv_from returns a datagram: the loop classifies it by its sender.
RecvDatagram(w) ==
    /\ w \in Active
    /\ pc[w] = "recv"
    /\ \E m \in inbox :
          /\ inbox' = inbox \ {m}
          /\ cur' = [cur EXCEPT ![w] = m]
          /\ pc' = [pc EXCEPT ![w] = IF m.from = Resolver THEN "reply" ELSE "query"]
    /\ UNCHANGED <<engine, id_range, next_id, pending, stop_signal, removed, joinpc,
                   nq, nr, sent, handlerLog, allocated, n, probe, duplicated, storeVars>>

\* RecvTimeoutStop with the processor emptying its table as it leaves.
RecvTimeoutStop_Drain(w) ==
    /\ w \in Active
    /\ engine = "DnsThread"
    /\ pc[w] = "recv"
    /\ inbox = {}
    /\ stop_signal[w]
    /\ pc' = [pc EXCEPT ![w] = "stopped"]
    /\ pending' = [pending EXCEPT ![w] = EmptyStore]
    /\ UNCHANGED <<engine, id_range, next_id, stop_signal, cur, removed,
                   joinpc, inbox, nq, nr, sent, handlerLog, allocated, n, probe, duplicated, storeVars>>

\* The read times out (WouldBlock / TimedOut) with the stop flag set:
\* recv_from returns Err("Stopped") and run returns it.
RecvTimeoutStop(w) ==
    /\ w \in Active
    /\ engine = "DnsThread"
    /\ pc[w] = "recv"
    /\ inbox = {}
    /\ stop_signal[w]
    /\ pc' = [pc EXCEPT ![w] = "stopped"]
    /\ UNCHANGED <<engine, id_range, next_id, pending, stop_signal, cur, removed,
                   joinpc, inbox, nq, nr, sent, handlerLog, allocated, n, probe, duplicated, storeVars>>

\* The read times out and the loop reads again: the stop flag is not set
\* (DnsProcessor), or the engine has none (AnyDNS sleeps and reads again).
RecvTimeoutContinue(w) ==
    /\ w \in Active
    /\ pc[w] = "recv"
    /\ inbox = {}
    /\ engine = "DnsThread" => ~stop_signal[w]
    /\ UNCHANGED vars

\* Any other read error is returned by recv_from and, through `?`, by run.
RecvError(w) ==
    /\ w \in Active
    /\ pc[w] = "recv"
    /\ pc' = [pc EXCEPT ![w] = "failed"]
    /\ UNCHANGED <<engine, id_range, next_id, pending, stop_signal, cur, removed,
                   joinpc, inbox, nq, nr, sent, handlerLog, allocated, n, probe, duplicated, storeVars>>

\* ClientInsert without the insert: the id is allocated and the datagram goes
\* on to the send with no record in the store.
ClientInsert_NoInsert(w) ==
    /\ w \in Active
    /\ pc[w] = "query"
    /\ \E r \in (IF engine = "AnyDNS"
                 THEN {[panic |-> FALSE, id |-> AnyNextId(next_id[w])]}
                 ELSE NextIdResults(next_id[w], id_range[w])) :
          IF r.panic
          THEN /\ pc' = [pc EXCEPT ![w] = "panicked"]
               /\ UNCHANGED <<next_id, allocated>>
          ELSE /\ next_id' = [next_id EXCEPT ![w] = r.id]
               /\ allocated' = [allocated EXCEPT ![w] = Remember(@, r.id)]
               /\ pc' = [pc EXCEPT ![w] = "forward"]
    /\ UNCHANGED <<engine, id_range, pending, stop_signal, cur, removed, joinpc, inbox,
                   nq, nr, sent, handlerLog, n, probe, duplicated, storeVars>>

\* ClientInsert with the record made from the buffer after bytes 0-1 were
\* overwritten with the id.
ClientInsert_AfterRewrite(w) ==
    /\ w \in Active
    /\ pc[w] = "query"
    /\ \E r \in (IF engine = "AnyDNS"
                 THEN {[panic |-> FALSE, id |-> AnyNextId(next_id[w])]}
                 ELSE NextIdResults(next_id[w], id_range[w])) :
          IF r.panic
          THEN /\ pc' = [pc EXCEPT ![w] = "panicked"]
               /\ UNCHANGED <<next_id, pending, allocated>>
          ELSE /\ next_id' = [next_id EXCEPT ![w] = r.id]
               /\ pending' = [pending EXCEPT ![w] =
                     StoreInsert(@, [id |-> r.id,
                                     query |-> [cur[w].data EXCEPT !.hdr = ToBeBytes(r.id)],
                                     from |-> cur[w].from])]
               /\ allocated' = [allocated EXCEPT ![w] = Remember(@, r.id)]
               /\ pc' = [pc EXCEPT ![w] = "forward"]
    /\ UNCHANGED <<engine, id_range, stop_signal, cur, removed, joinpc, inbox, nq, nr,
                   sent, handlerLog, n, probe, duplicated, storeVars>>

\* Client path, first half: next_id, then the insert of the record holding
\* the datagram as received.
ClientInsert(w) ==
    /\ w \in Active
    /\ pc[w] = "query"
    /\ \E r \in (IF engine = "AnyDNS"
                 THEN {[panic |-> FALSE, id |-> AnyNextId(next_id[w])]}
                 ELSE NextIdResults(next_id[w], id_range[w])) :
          IF r.panic
          THEN /\ pc' = [pc EXCEPT ![w] = "panicked"]
               /\ UNCHANGED <<next_id, pending, allocated>>
          ELSE /\ next_id' = [next_id EXCEPT ![w] = r.id]
               /\ pending' = [pending EXCEPT ![w] =
                     StoreInsert(@, [id |-> r.id, query |-> cur[w].data, from |-> cur[w].from])]
               /\ allocated' = [allocated EXCEPT ![w] = Remember(@, r.id)]
               /\ pc' = [pc EXCEPT ![w] = "forward"]
    /\ UNCHANGED <<engine, id_range, stop_signal, cur, removed, joinpc, inbox, nq, nr,
                   sent, handlerLog, n, probe, duplicated, storeVars>>

\* The datagram forwarded: the read buffer with bytes 0-1 overwritten.
Forwarded(d, id) == [d EXCEPT !.hdr = ToBeBytes(id)]

\* Client path, second half: bytes 0 and 1 of the buffer are overwritten with
\* the id (an index out of bounds on a datagram shorter than two bytes) and
\* the buffer is sent to the resolver; a failed send panics in unwrap().
ForwardSend(w) ==
    /\ w \in Active
    /\ pc[w] = "forward"
    /\ \E ok \in BOOLEAN :
          IF Len(cur[w].data.hdr) = 2 /\ ok
          THEN /\ sent' = sent \cup {[to |-> Resolver, data |-> Forwarded(cur[w].data, next_id[w]),
                                      by |-> w, origin |-> cur[w], up |-> NoDatagram.data]}
               /\ pc' = [pc EXCEPT ![w] = "recv"]
               /\ cur' = [cur EXCEPT ![w] = NoDatagram]
          ELSE /\ pc' = [pc EXCEPT ![w] = "panicked"]
               /\ cur' = [cur EXCEPT ![w] = NoDatagram]
               /\ UNCHANGED sent
    /\ UNCHANGED <<engine, id_range, next_id, pending, stop_signal, removed, joinpc,
                   inbox, nq, nr, handlerLog, allocated, n, probe, duplicated, storeVars>>

\* Upstream path, first half: the datagram is parsed (unwrap() panics on
\* bytes that are no DNS message) and its id removed from the store.
ReplyRemove(w) ==
    /\ w \in Active
    /\ pc[w] = "reply"
    /\ IF ~ParseOk(cur[w].data)
       THEN /\ pc' = [pc EXCEPT ![w] = "panicked"]
            /\ cur' = [cur EXCEPT ![w] = NoDatagram]
            /\ UNCHANGED <<pending, removed>>
       ELSE LET id == Parse(cur[w].data).id IN
            IF id \in DOMAIN pending[w]
            THEN /\ removed' = [removed EXCEPT ![w] = pending[w][id]]
                 /\ pending' = [pending EXCEPT ![w] = StoreRemove(@, id)]
                 /\ pc' = [pc EXCEPT ![w] = "relay"]
                 /\ UNCHANGED cur
            ELSE /\ pc' = [pc EXCEPT ![w] = "recv"]
                 /\ cur' = [cur EXCEPT ![w] = NoDatagram]
                 /\ UNCHANGED <<pending, removed>>
    /\ UNCHANGED <<engine, id_range, next_id, stop_signal, joinpc, inbox, nq, nr, sent,
                   handlerLog, allocated, n, probe, duplicated, storeVars>>

\* BuildReply with the reply started under the upstream packet's id.
BuildReply_UpstreamId(original_query, packet) ==
    [NewReply(packet.id) EXCEPT !.answers = packet.answers,
                                !.questions = original_query.questions]

\* The reply built for the client: a new reply under the stored query's id,
\* with the upstream packet's answers and the stored query's questions.
BuildReply(original_query, packet) ==
    [NewReply(original_query.id) EXCEPT !.answers = packet.answers,
                                        !.questions = original_query.questions]

\* Upstream path, second half: the stored query is parsed (unwrap()), the
\* handler is called on it and its result dropped (DnsProcessor only), the
\* first question is taken (unwrap()), and the reply is built and sent to the
\* stored address (unwrap()).
RelaySend(w) ==
    /\ w \in Active
    /\ pc[w] = "relay"
    /\ handlerLog' =
          IF engine = "DnsThread" /\ ParseOk(removed[w].query)
          THEN handlerLog \cup {[by |-> w, query |-> Origin(w),
                                 answered |-> HandlerAnswers(Parse(removed[w].query))]}
          ELSE handlerLog
    /\ \E ok \in BOOLEAN :
          IF /\ ParseOk(removed[w].query)
             /\ Parse(removed[w].query).questions # <<>>
             /\ ok
          THEN /\ sent' = sent \cup
                     {[to |-> removed[w].from,
                       data |-> BuildBytes(BuildReply(Parse(removed[w].query), Parse(cur[w].data))),
                       by |-> w, origin |-> Origin(w), up |-> cur[w].data]}
               /\ pc' = [pc EXCEPT ![w] = "recv"]
               /\ cur' = [cur EXCEPT ![w] = NoDatagram]
               /\ removed' = [removed EXCEPT ![w] = NoPending]
          ELSE /\ pc' = [pc EXCEPT ![w] = "panicked"]
               /\ cur' = [cur EXCEPT ![w] = NoDatagram]
               /\ removed' = [removed EXCEPT ![w] = NoPending]
               /\ UNCHANGED sent
    /\ UNCHANGED <<engine, id_range, next_id, pending, stop_signal, joinpc, inbox, nq,
                   nr, allocated, n, probe, duplicated, storeVars>>

(***************************************************************************)
(* The controller: DnsThread::stop and DnsThread::join.                    *)
(***************************************************************************)
Stop(w) ==
    /\ engine = "DnsThread"
    /\ joinpc[w] = "idle"
    /\ ~stop_signal[w]
    /\ stop_signal' = [stop_signal EXCEPT ![w] = TRUE]
    /\ UNCHANGED <<engine, id_range, next_id, pending, pc, cur, removed, joinpc, inbox,
                   nq, nr, sent, handlerLog, allocated, n, probe, duplicated, storeVars>>

\* join: self.stop(), then the call of JoinHandle::join
JoinCall(w) ==
    /\ engine = "DnsThread"
    /\ joinpc[w] = "idle"
    /\ stop_signal' = [stop_signal EXCEPT ![w] = TRUE]
    /\ joinpc' = [joinpc EXCEPT ![w] = "joining"]
    /\ UNCHANGED <<engine, id_range, next_id, pending, pc, cur, removed, inbox, nq, nr,
                   sent, handlerLog, allocated, n, probe, duplicated, storeVars>>

\* JoinHandle::join returns once the thread has finished, whatever its
\* result (Ok, Err, or a panic); join drops the result.
JoinReturn(w) ==
    /\ engine = "DnsThread"
    /\ joinpc[w] = "joining"
    /\ Terminated(w)
    /\ joinpc' = [joinpc EXCEPT ![w] = "joined"]
    /\ UNCHANGED <<engine, id_range, next_id, pending, stop_signal, pc, cur, removed,
                   inbox, nq, nr, sent, handlerLog, allocated, n,
                   probe, duplicated, storeVars>>

WorkerStep(w) ==
    \/ RecvDatagram(w)
    \/ RecvTimeoutStop(w)
    \/ RecvTimeoutContinue(w)
    \/ RecvError(w)
    \/ ClientInsert(w)
    \/ ForwardSend(w)
    \/ ReplyRemove(w)
    \/ RelaySend(w)

Next ==
    \/ ClientSend
    \/ UpstreamSend
    \/ DuplicateSend
    \/ OrphanSend
    \/ \E w \in Workers : WorkerStep(w)
    \/ \E w \in Workers : Stop(w)
    \/ \E w \in Workers : JoinCall(w)
    \/ \E w \in Workers : JoinReturn(w)

Spec == Init /\ [][Next]_vars

\* The threads are scheduled fairly and a join whose thread has finished
\* returns; nothing is assumed of clients, the resolver or the controller.
SpecFair ==
    /\ Init
    /\ [][Next]_vars
    /\ \A w \in Workers : WF_vars(WorkerStep(w))
    /\ \A w \in Workers : WF_vars(JoinReturn(w))

(***************************************************************************)
(* SpecIds: one DnsProcessor, built with each range it can be handed, or   *)
(* one AnyDNS, on which next_id is called again and again.                 *)
(***************************************************************************)
\* The ranges of the partitions for 1..MaxN workers, the range 100..103, the
\* range 0..u16::MAX that DnsProcessor::new sets, and the last ids of it.
RangeInputs ==
    UNION { { IdRange(N, i) : i \in 0..(N - 1) } : N \in 1..MaxN }
    \cup { [start |-> 100, end |-> 103], [start |-> 0, end |-> U16Max],
           [start |-> U16Max - 2, end |-> U16Max] }

InitIds ==
    /\ engine \in {"DnsThread", "AnyDNS"}
    /\ \E r \in (IF engine = "AnyDNS" THEN {[start |-> 0, end |-> U16Max]} ELSE RangeInputs) :
          id_range = [w \in Workers |-> r]
    /\ next_id = [w \in Workers |-> IF engine = "AnyDNS" THEN 0 ELSE StartCursor(id_range[w])]
    /\ pending = [w \in Workers |-> EmptyStore]
    /\ stop_signal = [w \in Workers |-> FALSE]
    /\ pc = [w \in Workers |-> "recv"]
    /\ cur = [w \in Workers |-> NoDatagram]
    /\ removed = [w \in Workers |-> NoPending]
    /\ joinpc = [w \in Workers |-> "idle"]
    /\ inbox = {}
    /\ nq = 0
    /\ nr = 0
    /\ sent = {}
    /\ handlerLog = {}
    /\ allocated = [w \in Workers |-> <<>>]
    /\ n = 1
    /\ probe = 0
    /\ duplicated = {}
    /\ StoreIdle

\* One call of next_id on processor 1 (DnsProcessor::next_id or AnyDNS::next_id).
NextIdCall ==
    /\ pc[1] = "recv"
    /\ \E r \in (IF engine = "AnyDNS"
                 THEN {[panic |-> FALSE, id |-> AnyNextId(next_id[1])]}
                 ELSE NextIdResults(next_id[1], id_range[1])) :
          IF r.panic
          THEN /\ pc' = [pc EXCEPT ![1] = "panicked"]
               /\ UNCHANGED <<next_id, allocated>>
          ELSE /\ next_id' = [next_id EXCEPT ![1] = r.id]
               /\ allocated' = [allocated EXCEPT ![1] = Remember(@, r.id)]
               /\ pc' = pc
    /\ UNCHANGED <<engine, id_range, pending, stop_signal, cur, removed, joinpc, inbox,
                   nq, nr, sent, handlerLog, n, probe, duplicated, storeVars>>

NextIds == NextIdCall

SpecIds == InitIds /\ [][NextIds]_vars

(***************************************************************************)
(* SpecPartition: the partition for n workers, examined at every id.       *)
(***************************************************************************)
InitPartition ==
    /\ engine = "DnsThread"
    /\ n \in 1..MaxN
    /\ probe \in 0..U16Max
    /\ duplicated = {}
    /\ id_range = [w \in Workers |-> IdRange(NumWorkers, w - 1)]
    /\ next_id = [w \in Workers |-> StartCursor(id_range[w])]
    /\ pending = [w \in Workers |-> EmptyStore]
    /\ stop_signal = [w \in Workers |-> FALSE]
    /\ pc = [w \in Workers |-> "recv"]
    /\ cur = [w \in Workers |-> NoDatagram]
    /\ removed = [w \in Workers |-> NoPending]
    /\ joinpc = [w \in Workers |-> "idle"]
    /\ inbox = {}
    /\ nq = 0
    /\ nr = 0
    /\ sent = {}
    /\ handlerLog = {}
    /\ allocated = [w \in Workers |-> <<>>]
    /\ StoreIdle

\* The examination moves on to the next id.
ProbeNext ==
    /\ probe < U16Max
    /\ probe' = probe + 1
    /\ UNCHANGED <<engine, id_range, next_id, pending, stop_signal, pc, cur, removed,
                   joinpc, inbox, nq, nr, sent, handlerLog, allocated, n, duplicated,
                   storeVars>>

NextPartition == ProbeNext

SpecPartition == InitPartition /\ [][NextPartition]_vars

(***************************************************************************)
(* SpecStore: a PendingStore is created, each processor is built by        *)
(* DnsProcessor::new_threadsafe with a clone of it, and the processors     *)
(* call insert and remove on their stores concurrently.                    *)
(***************************************************************************)
engineVars == <<engine, id_range, next_id, pending, stop_signal, pc, cur, removed, joinpc,
                inbox, nq, nr, sent, handlerLog, allocated, n, probe, duplicated>>

\* The keys used: the first id of each worker's range.
StoreKeys == { IdRange(NumWorkers, w - 1).start + 1 : w \in Workers }
\* The records inserted: a well-formed client query under a key.
StoreRecords ==
    { [id |-> k, query |-> m.data, from |-> m.from] :
        k \in StoreKeys, m \in {x \in ClientMessages : x.data.body.wf} }

\* PendingStore::new_simple or PendingStore::new_thread_safe
InitStore ==
    /\ engine = "DnsThread"
    /\ id_range = [w \in Workers |-> IdRange(NumWorkers, w - 1)]
    /\ next_id = [w \in Workers |-> StartCursor(id_range[w])]
    /\ pending = [w \in Workers |-> EmptyStore]
    /\ stop_signal = [w \in Workers |-> FALSE]
    /\ pc = [w \in Workers |-> "recv"]
    /\ cur = [w \in Workers |-> NoDatagram]
    /\ removed = [w \in Workers |-> NoPending]
    /\ joinpc = [w \in Workers |-> "idle"]
    /\ inbox = {}
    /\ nq = 0
    /\ nr = 0
    /\ sent = {}
    /\ handlerLog = {}
    /\ allocated = [w \in Workers |-> <<>>]
    /\ n = NumWorkers
    /\ probe = 0
    /\ duplicated = {}
    /\ variant \in {"Simple", "ThreadSafe"}
    /\ tables = <<EmptyStore>>
    /\ handle = [w \in Workers |-> 0]
    /\ mutex = 0
    /\ call = [w \in Workers |-> NoCall]
    /\ hist = <<>>

\* NewThreadsafeAccepts taking any store.
NewThreadsafeAccepts_Any(v) == TRUE

\* DnsProcessor::new_threadsafe: panics unless the store is PendingStore::ThreadSafe.
NewThreadsafeAccepts(v) == v = "ThreadSafe"

\* A clone of the store created first is handed to new_threadsafe for
\* processor w.  Clone of ThreadSafeStore is Arc::clone: the same table.
\* Clone of SimpleStore is derived: a copy of the HashMap as it is now.
NewThreadsafe(w) ==
    /\ handle[w] = 0
    /\ LET shared == variant = "ThreadSafe"
           t == IF shared THEN 1 ELSE Len(tables) + 1
       IN  /\ tables' = IF shared THEN tables ELSE Append(tables, tables[1])
           /\ handle' = [handle EXCEPT ![w] = IF NewThreadsafeAccepts(variant) THEN t ELSE -1]
    /\ UNCHANGED <<engineVars, variant, mutex, call, hist>>

\* Calls begun or completed so far.
CallsMade == Len(hist) + Cardinality({w \in Workers : call[w].op # "none"})

\* The lock taken at the start of ThreadSafeStore::insert and ::remove;
\* SimpleStore has none.
LockTaken(w) ==
    IF variant = "ThreadSafe" THEN mutex = 0 /\ mutex' = w ELSE mutex' = mutex

\* PendingStore::insert is entered and, on the thread-safe store, has the lock.
CallInsert(w) ==
    /\ handle[w] >= 1
    /\ call[w].op = "none"
    /\ CallsMade < MaxOps
    /\ LockTaken(w)
    /\ \E e \in StoreRecords : call' = [call EXCEPT ![w] = [op |-> "insert", rec |-> e]]
    /\ UNCHANGED <<engineVars, variant, tables, handle, hist>>

\* PendingStore::remove is entered and, on the thread-safe store, has the lock.
CallRemove(w) ==
    /\ handle[w] >= 1
    /\ call[w].op = "none"
    /\ CallsMade < MaxOps
    /\ LockTaken(w)
    /\ \E k \in StoreKeys :
          call' = [call EXCEPT ![w] = [op |-> "remove", rec |-> [NoPending EXCEPT !.id = k]]]
    /\ UNCHANGED <<engineVars, variant, tables, handle, hist>>

\* HashMap::insert on the store's table; the guard is dropped on return.
InsertReturn(w) ==
    /\ call[w].op = "insert"
    /\ tables' = [tables EXCEPT ![handle[w]] = StoreInsert(@, call[w].rec)]
    /\ hist' = Append(hist, [op |-> "insert", id |-> call[w].rec.id, rec |-> call[w].rec, by |-> w])
    /\ mutex' = IF mutex = w THEN 0 ELSE mutex
    /\ call' = [call EXCEPT ![w] = NoCall]
    /\ UNCHANGED <<engineVars, variant, handle>>

\* HashMap::remove on the store's table: returns the record (None: NoPending);
\* the guard is dropped on return.
RemoveReturn(w) ==
    /\ call[w].op = "remove"
    /\ LET id == call[w].rec.id
           t == tables[handle[w]]
       IN  /\ tables' = [tables EXCEPT ![handle[w]] = StoreRemove(@, id)]
           /\ hist' = Append(hist, [op |-> "remove", id |-> id,
                                    rec |-> IF id \in DOMAIN t THEN t[id] ELSE NoPending,
                                    by |-> w])
    /\ mutex' = IF mutex = w THEN 0 ELSE mutex
    /\ call' = [call EXCEPT ![w] = NoCall]
    /\ UNCHANGED <<engineVars, variant, handle>>

NextStore ==
    \E w \in Workers :
        \/ NewThreadsafe(w)
        \/ CallInsert(w)
        \/ CallRemove(w)
        \/ InsertReturn(w)
        \/ RemoveReturn(w)

SpecStore == InitStore /\ [][NextStore]_vars

(***************************************************************************)
(* Properties of the engine (Spec, SpecFair).                              *)
(***************************************************************************)
Forwards == {s \in sent : s.to = Resolver}
Relays == {s \in sent : s.to # Resolver}

\* C1 -- ID transparency: every datagram the engine sends to a client goes
\* to the sender of a client query that was read and forwarded, and carries
\* in bytes 0-1 the bytes 0-1 of that query as the client sent it.
C1_IdTransparency ==
    \A s \in Relays :
        /\ s.origin \in ClientMessages
        /\ \E f \in Forwards : f.origin = s.origin
        /\ s.to = s.origin.from
        /\ s.data.hdr = s.origin.data.hdr

\* A reply was relayed to a client, under an id other than the upstream one.
C1_Witness ==
    \E s \in Relays : s.up.hdr # s.origin.data.hdr /\ s.data.body.answers = s.up.body.answers

\* C2 -- Handler fast path: whenever the handler returns a reply for a client
\* query, no datagram was sent to the resolver for that query and no pending
\* entry holds it.
C2_HandlerFastPath ==
    \A h \in handlerLog :
        h.answered =>
            /\ ~ \E f \in Forwards : f.origin = h.query
            /\ \A w \in Workers : \A k \in DOMAIN pending[w] :
                  [from |-> pending[w][k].from, data |-> pending[w][k].query] # h.query

\* The handler's reply as the claim has it delivered: bytes 0-1 overwritten
\* with the query's bytes 0-1.
Restamped(reply, query) == [reply EXCEPT !.hdr = query.hdr]

\* C3 -- Handler reply delivery: when the handler returns a reply for a client
\* query received from `from`, exactly that reply, with bytes 0-1 those of the
\* query, is what the engine sends to `from`, and nothing else is sent for the
\* datagram.
C3_HandlerReplyDelivered ==
    \A h \in handlerLog :
        h.answered =>
            \A s \in sent :
                s.origin = h.query =>
                    /\ s.to = h.query.from
                    /\ s.data = Restamped(BuildBytes(HandlerReply(Parse(h.query.data))),
                                          h.query.data)

\* C4 -- Insertion precedes forwarding: at every send to the resolver, the
\* sender's store holds, before and after the step, the entry keyed by the id
\* in bytes 0-1 of the datagram sent, and the entry is the one of the
\* datagram being forwarded.
C4_InsertionPrecedesForwarding ==
    [][ \A s \in sent' \ sent :
            s.to = Resolver =>
                LET id == FromBeBytes(s.data.hdr) IN
                /\ id \in DOMAIN pending[s.by]
                /\ pending[s.by][id].query = s.origin.data
                /\ pending[s.by][id].from = s.origin.from
                /\ id \in DOMAIN pending'[s.by] ]_vars

\* A datagram was sent to the resolver.
C4_Witness == \E s \in Forwards : FromBeBytes(s.data.hdr) \in DOMAIN pending[s.by]

\* C5 -- Cross-worker correlation: a worker that has read a datagram of the
\* resolver whose id has a pending entry, inserted by whichever worker
\* forwarded the query, goes on to relay it.
C5_CrossWorkerCorrelation ==
    [][ \A w \in Workers :
            ( /\ engine = "DnsThread"
              /\ pc[w] = "reply"
              /\ ParseOk(cur[w].data)
              /\ \E v \in Workers : Parse(cur[w].data).id \in DOMAIN pending[v]
              /\ pc'[w] # pc[w] )
            => pc'[w] = "relay" ]_vars

\* C9 -- Shutdown response: once its stop flag is set, a worker leaves its
\* loop, whatever datagrams arrive afterwards.
C9_ShutdownResponse ==
    \A w \in Workers : stop_signal[w] ~> Terminated(w)

\* C10 -- join: a call of join returns (and, as it returns only through
\* JoinHandle::join, only after the thread has finished).
C10_JoinReturns ==
    \A w \in Workers : (joinpc[w] = "joining") ~> (joinpc[w] = "joined")

\* C12 -- Byte-transparent relay: the datagram relayed to the client is the
\* upstream datagram, in every field, with bytes 0-1 replaced by those of
\* the client's query.
C12_ByteTransparentRelay ==
    \A s \in Relays : s.data = [s.up EXCEPT !.hdr = s.origin.data.hdr]

\* C13 -- Orphan upstream reply: a worker that has read a datagram of the
\* upstream address whose id (bytes 0-1) has no pending entry in any table
\* sends nothing, leaves the tables as they are, and goes back to reading.
C13_OrphanDropped ==
    [][ \A w \in Workers :
            ( /\ engine = "DnsThread"
              /\ pc[w] = "reply"
              /\ Len(cur[w].data.hdr) = 2
              /\ \A v \in Workers : FromBeBytes(cur[w].data.hdr) \notin DOMAIN pending[v]
              /\ pc'[w] # pc[w] )
            => /\ sent' = sent
               /\ pending' = pending
               /\ pc'[w] = "recv" ]_vars

\* C14 -- A worker terminates only because of shutdown: a worker leaves
\* its loop at the read only with its stop flag set, by the exit that follows
\* the check of the flag.
C14_ExitOnlyOnShutdown ==
    [][ \A w \in Workers :
            (engine = "DnsThread" /\ pc[w] = "recv" /\ Terminated(w)')
            => (stop_signal[w] /\ pc'[w] = "stopped") ]_vars

\* C15 -- Failed send: a worker whose send (of a forward, or of a relay
\* built from a stored query that parses and has a question) sends nothing
\* goes back to reading, with the tables as they were before the send.
C15_FailedSendSurvived ==
    [][ \A w \in Workers :
            ( /\ engine = "DnsThread"
              /\ \/ pc[w] = "forward" /\ Len(cur[w].data.hdr) = 2
                 \/ /\ pc[w] = "relay"
                    /\ ParseOk(removed[w].query)
                    /\ Parse(removed[w].query).questions # <<>>
              /\ pc'[w] # pc[w]
              /\ sent' = sent )
            => (pc'[w] = "recv" /\ pending' = pending) ]_vars

\* C16 -- Non-DNS client datagrams: a client datagram that is no DNS message
\* is forwarded when the send succeeds, with the bytes after the id as
\* received, and the worker that later takes its record out of the table
\* for the upstream reply does not terminate on it.
C16_NonDnsQueryHarmless ==
    [][ \A w \in Workers :
            /\ ( /\ engine = "DnsThread"
                 /\ pc[w] = "forward"
                 /\ ~ParseOk(cur[w].data)
                 /\ pc'[w] = "recv" )
               => \E s \in sent' \ sent : s.to = Resolver /\ s.data.body = cur[w].data.body
            /\ ( /\ engine = "DnsThread"
                 /\ pc[w] = "relay"
                 /\ ~ParseOk(removed[w].query) )
               => ~Terminated(w)' ]_vars

\* C18 -- Forwarded copy: the datagram sent to the resolver is the datagram
\* in the read buffer as received from the client, except that bytes 0-1 are
\* the id just allocated (the key of the record just inserted), high byte
\* first.
C18_ForwardedCopy ==
    [][ \A s \in sent' \ sent :
            s.to = Resolver =>
                /\ s.origin = cur[s.by]
                /\ s.origin \in ClientMessages
                /\ s.data.body = s.origin.data.body
                /\ Len(s.data.hdr) = 2
                /\ s.data.hdr[1] * ByteBase + s.data.hdr[2] = next_id[s.by]
                /\ s.data.hdr[1] < ByteBase /\ s.data.hdr[2] < ByteBase
                /\ next_id[s.by] \in DOMAIN pending[s.by]
                /\ pending[s.by][next_id[s.by]].query = s.origin.data ]_vars

\* A datagram was forwarded under an id whose two bytes differ.
C18_Witness ==
    \E s \in Forwards : s.data.hdr[1] # s.data.hdr[2] /\ s.data.hdr # s.origin.data.hdr

\* C19 -- Stored record is never mutated: every record in a table holds a
\* client datagram exactly as it was received, original id bytes included,
\* under its key; and no step changes a record that stays in its table,
\* except the insert that replaces it under the same key.
C19_StoredRecordIntact ==
    [][ \A w \in Workers :
            /\ \A k \in DOMAIN pending'[w] :
                  /\ [from |-> pending'[w][k].from, data |-> pending'[w][k].query] \in ClientMessages
                  /\ pending'[w][k].id = k
            /\ \A k \in DOMAIN pending[w] \cap DOMAIN pending'[w] :
                  \/ pending'[w][k] = pending[w][k]
                  \/ /\ pc[w] = "query"
                     /\ pending'[w][k].query = cur[w].data
                     /\ pending'[w][k].from = cur[w].from ]_vars

\* A record is still in its table, as received, after the copy with the
\* rewritten id was sent to the resolver.
C19_Witness ==
    \E s \in Forwards :
        LET id == FromBeBytes(s.data.hdr) IN
        /\ id \in DOMAIN pending[s.by]
        /\ pending[s.by][id].query = s.origin.data
        /\ pending[s.by][id].query.hdr # s.data.hdr
        /\ pc[s.by] = "recv"

InFlight(f) ==
    {m \in inbox : m.from = Resolver /\ m.data.hdr = f.data.hdr}
    \cup {cur[w] : w \in {v \in Workers : /\ pc[v] \in {"reply", "relay"}
                                          /\ cur[v].data.hdr = f.data.hdr}}

\* C22 -- At-most-once relay: for every datagram forwarded, at most one
\* reply is sent to its client; and once a reply of the resolver to it has
\* arrived twice and both copies have been handled, by whichever workers,
\* with no worker lost to a panic or an error, exactly one reply has been
\* sent to the client.
C22_AtMostOnceRelay ==
    \A f \in Forwards :
        LET rel == {s \in Relays : s.origin = f.origin}
        IN  /\ Cardinality(rel) <= 1
            /\ ( /\ \E d \in duplicated : d.hdr = f.data.hdr
                 /\ InFlight(f) = {}
                 /\ \A w \in Workers : pc[w] \notin {"panicked", "failed"} )
               => Cardinality(rel) = 1

(***************************************************************************)
(* Properties of id allocation (SpecIds).                                  *)
(***************************************************************************)
\* C6 -- No key collision between workers: every id next_id returns to the
\* worker holding range i of the partition for N workers is one of the ids
\* of range i (its end included) and is none of the ids next_id hands out of
\* any other range j of that partition.
C6_NoKeyCollision ==
    \A N \in 1..MaxN : \A i \in 0..(N - 1) :
        (id_range[1] = IdRange(N, i) /\ allocated[1] # <<>>) =>
            /\ Allocatable(IdRange(N, i), next_id[1])
            /\ \A k \in 1..Len(allocated[1]) : Allocatable(IdRange(N, i), allocated[1][k])
            /\ \A j \in 0..(N - 1) \ {i} : ~Allocatable(IdRange(N, j), next_id[1])

\* The second worker of two has gone through its whole range and wrapped.
C6_Witness ==
    /\ id_range[1] = IdRange(2, 1)
    /\ Len(allocated[1]) = MaxHist
    /\ next_id[1] = id_range[1].start

\* C8 -- ID wrap sequence: the ids next_id returns lie in [start, end), and
\* for the range [100, 103) they are 101, 102, 100, 101, in this order.
C8_WrapSequence ==
    /\ \A k \in 1..Len(allocated[1]) : RangeContains(id_range[1], allocated[1][k])
    /\ id_range[1] = [start |-> 100, end |-> 103] =>
          \A k \in 1..Len(allocated[1]) :
              k <= 4 => allocated[1][k] = <<101, 102, 100, 101>>[k]

\* C17 -- Fresh upstream IDs: two consecutive calls of next_id on one
\* processor (DnsProcessor or AnyDNS) never return the same id, so the record
\* inserted under the second never replaces the one inserted under the first.
C17_FreshUpstreamIds ==
    \A k \in 1..(Len(allocated[1]) - 1) : allocated[1][k] # allocated[1][k + 1]

\* C23 -- No 16-bit overflow in ID allocation: on a DnsProcessor built with
\* any range, the default 0..65535 included, the cursor never reaches 65535
\* (so cursor + 1 fits 16 bits at the next call) and next_id never panics.
C23_NoOverflow ==
    engine = "DnsThread" => (next_id[1] < U16Max /\ pc[1] # "panicked")

(***************************************************************************)
(* Properties of the partition (SpecPartition).                            *)
(***************************************************************************)
InRange(i, x) == RangeContains(IdRange(n, i), x)

\* No id lies in two ranges of the partition.
RangesDisjoint ==
    \A i \in 0..(n - 1) : \A j \in 0..(n - 1) :
        i # j => ~(InRange(i, probe) /\ InRange(j, probe))

\* C7 (as claimed) -- Range partition: the ranges [i*width, (i+1)*width - 1)
\* are pairwise disjoint and every id in [0, N*width) lies in one of them.
C7_PartitionCovers ==
    /\ RangesDisjoint
    /\ probe < n * Width(n) => \E i \in 0..(n - 1) : InRange(i, probe)

\* C7 (amended) -- the ranges are pairwise disjoint and every id in
\* [0, N*width) lies in one of them or is the end (i+1)*width - 1 of one.
C7_PartitionCoversButEnds ==
    /\ RangesDisjoint
    /\ probe < n * Width(n) =>
          \E i \in 0..(n - 1) : InRange(i, probe) \/ probe = IdRange(n, i).end

\* The id examined is the last one of the first of two ranges: 32766.
C7_Witness == n = 2 /\ probe = IdRange(2, 0).end /\ ~InRange(0, probe) /\ ~InRange(1, probe)

(***************************************************************************)
(* Properties of the stores (SpecStore).                                   *)
(***************************************************************************)
\* The last call on id among the first k - 1 calls completed (0: none).
LastOp(k, id) ==
    LET js == {j \in 1..(k - 1) : hist[j].id = id}
    IN  IF js = {} THEN 0 ELSE CHOOSE j \in js : \A i \in js : i <= j

\* What a map holds for id after the first k - 1 calls: the record of the
\* last insert, unless a remove came after it.
Expected(k, id) ==
    LET j == LastOp(k, id)
    IN  IF j = 0 THEN NoPending
        ELSE IF hist[j].op = "remove" THEN NoPending ELSE hist[j].rec

\* C11 -- Table is a linearizable map: on the thread-safe store, in the order
\* in which the calls of all processors complete, every remove returns the
\* record of the last insert for its id not yet removed (None if there is
\* none), and the table holds exactly the records inserted and not removed
\* since, each under its id with the last value inserted.
C11_LinearizableMap ==
    variant = "ThreadSafe" =>
        /\ \A k \in 1..Len(hist) :
              hist[k].op = "remove" => hist[k].rec = Expected(k, hist[k].id)
        /\ \A id \in StoreKeys :
              LET e == Expected(Len(hist) + 1, id)
              IN  IF e = NoPending
                  THEN id \notin DOMAIN tables[1]
                  ELSE id \in DOMAIN tables[1] /\ tables[1][id] = e
        /\ DOMAIN tables[1] \subseteq StoreKeys

\* Two processors inserted different records under one id, and a remove
\* returned the second.
C11_Witness ==
    /\ variant = "ThreadSafe"
    /\ Len(hist) >= 3
    /\ hist[1].op = "insert" /\ hist[2].op = "insert" /\ hist[3].op = "remove"
    /\ hist[1].id = hist[2].id /\ hist[2].id = hist[3].id
    /\ hist[1].by # hist[2].by
    /\ hist[1].rec # hist[2].rec
    /\ hist[3].rec = hist[2].rec
    /\ hist[3].id \notin DOMAIN tables[1]

\* C20 -- Shared handles: of two consecutive calls on one id made through
\* the stores of two different processors (clones of one store), a remove
\* that follows an insert returns the record inserted, and a remove that
\* follows a remove returns None.
C20_SharedHandles ==
    \A i \in 1..Len(hist) : \A j \in 1..Len(hist) :
        ( /\ i < j
          /\ hist[i].by # hist[j].by
          /\ hist[j].op = "remove"
          /\ hist[j].id = hist[i].id
          /\ LastOp(j, hist[j].id) = i )
        => hist[j].rec = IF hist[i].op = "insert" THEN hist[i].rec ELSE NoPending

\* A record inserted through one processor's store was returned by remove
\* through the other's, and a later remove through the first found it absent.
C20_Witness ==
    \E i \in 1..Len(hist) : \E j \in 1..Len(hist) : \E k \in 1..Len(hist) :
        /\ i < j /\ j < k
        /\ hist[i].op = "insert" /\ hist[j].op = "remove" /\ hist[k].op = "remove"
        /\ hist[i].id = hist[j].id /\ hist[j].id = hist[k].id
        /\ hist[i].by # hist[j].by /\ hist[k].by = hist[i].by
        /\ LastOp(j, hist[j].id) = i /\ LastOp(k, hist[k].id) = j
        /\ hist[j].rec = hist[i].rec
        /\ hist[k].rec = NoPending

====
